---- MODULE Spec2Model ----
(***************************************************************************)
(* Model of the SQL-chat router (src/router.py, with the routerD.py and    *)
(* routerL.py variants): the schema parser _parse_db_description, the      *)
(* module-level _FLAT_COLUMNS, the fuzzy hint search _fuzzy_suggest and    *)
(* the repair of the model's answer in decide_route.                       *)
(*                                                                         *)
(* Strings that the code inspects character by character (schema lines,    *)
(* questions, column references) are sequences of one-character strings.   *)
(* Values the code only compares as a whole (the route, the language tag)  *)
(* are TLA+ strings.                                                       *)
(***************************************************************************)
EXTENDS Integers, Sequences, FiniteSets, TLC

VARIABLES
    lines,          \* path.read_text().splitlines(): the schema text
    lineNo,         \* position of the for loop of _parse_db_description
    schema,         \* the dict `schema` / _SCHEMA, in insertion order
    current_table,  \* the local current_table (None before a heading)
    FLAT_COLUMNS,   \* the module global _FLAT_COLUMNS
    ratio,          \* fuzz.partial_ratio as a table: ratio[tok][cand]
    pc,             \* where the program is
    question,       \* argument of the decide_route call in progress
    hints,          \* local `hints` of decide_route
    detected_lang,  \* local `detected_lang` of decide_route
    choice,         \* completion.choices[0].message, as far as the code reads it
    result,         \* what decide_route returned (or raised)
    suggestCall,    \* last direct call of _fuzzy_suggest: [text, k, out]
    workers         \* the locals of each concurrent worker's decide_route call

vars == <<lines, lineNo, schema, current_table, FLAT_COLUMNS, ratio, pc,
          question, hints, detected_lang, choice, result, suggestCall, workers>>

\* None, and every other falsy string: no regex group is ever empty
None == <<>>

----------------------------------------------------------------------------
(* Program constants                                                       *)

\* {3,} of the token pattern
MinTokenLen == 3
\* if score >= 65
Threshold == 65
\* limit=20 of process.extract
ExtractLimit == 20
\* the default k of _fuzzy_suggest
DefaultK == 3
\* the 3 of `len(valid_suggestions) < 3` and `additional[: 3 - len(...)]`
SuggestionCap == 3

----------------------------------------------------------------------------
(* Characters                                                              *)

UpperChars == {"A", "B", "C", "T", "U"}
LowerChars == {"a", "b", "c", "t", "u", "x"}
DigitChars == {"1"}
\* [A-Za-z0-9_]
WordChars == UpperChars \cup LowerChars \cup DigitChars \cup {"_"}
\* \s as far as the sample lines use it
SpaceChars == {" ", "\t"}
\* the argument of lstrip(" \t-")
StripChars == {" ", "\t", "-"}

\* str.lower() on one character
LowerChar(c) ==
    CASE c = "A" -> "a"
      [] c = "B" -> "b"
      [] c = "C" -> "c"
      [] c = "T" -> "t"
      [] c = "U" -> "u"
      [] OTHER -> c

\* str.lower()
Lower(s) == [i \in 1..Len(s) |-> LowerChar(s[i])]

\* length of the longest run of characters of cls that starts at s[from]
RECURSIVE RunLen(_, _, _)
RunLen(s, from, cls) ==
    IF from > Len(s) \/ s[from] \notin cls THEN 0
    ELSE 1 + RunLen(s, from + 1, cls)

----------------------------------------------------------------------------
(* 1. _parse_db_description                                                *)

\* re.match(r"^###\s+([A-Za-z0-9_]+)", raw): group(1), or None
HeadingMatch(raw) ==
    IF Len(raw) >= 3 /\ raw[1] = "#" /\ raw[2] = "#" /\ raw[3] = "#"
    THEN LET ws == RunLen(raw, 4, SpaceChars)
             n  == RunLen(raw, 4 + ws, WordChars)
         IN  IF ws >= 1 /\ n >= 1 THEN SubSeq(raw, 4 + ws, 3 + ws + n) ELSE None
    ELSE None

\* raw.lstrip(" \t-")
LStrip(raw) ==
    LET n == RunLen(raw, 1, StripChars) IN SubSeq(raw, n + 1, Len(raw))

\* re.match(r"^([A-Za-z0-9_]+):", line): group(1), or None
ColumnMatch(line) ==
    LET n == RunLen(line, 1, WordChars)
    IN  IF n >= 1 /\ n < Len(line) /\ line[n + 1] = ":" THEN SubSeq(line, 1, n)
        ELSE None

\* x occurs in seq
InList(x, seq) == \E i \in 1..Len(seq) : seq[i] = x

\* position of key in the dict, 0 when absent
KeyIndex(d, key) ==
    IF \E i \in 1..Len(d) : d[i].name = key
    THEN CHOOSE i \in 1..Len(d) : d[i].name = key
    ELSE 0

\* variant: an assignment to an existing key leaves its value alone
DictSetKeep(d, key, val) ==
    IF KeyIndex(d, key) = 0 THEN Append(d, [name |-> key, cols |-> val])
    ELSE d

\* d[key] = val on an insertion-ordered dict: an existing key keeps its place
DictSet(d, key, val) ==
    IF KeyIndex(d, key) = 0 THEN Append(d, [name |-> key, cols |-> val])
    ELSE [d EXCEPT ![KeyIndex(d, key)].cols = val]

\* variant: a column name already in the list is not appended again
DictAppendOnce(d, key, x) ==
    IF InList(x, d[KeyIndex(d, key)].cols) THEN d
    ELSE [d EXCEPT ![KeyIndex(d, key)].cols = Append(@, x)]

\* d[key].append(x)
DictAppend(d, key, x) ==
    [d EXCEPT ![KeyIndex(d, key)].cols = Append(@, x)]

\* variant: a column goes to the table registered last, not to the current one
ParseStepLastRegistered(sch, cur, raw) ==
    LET tbl == HeadingMatch(raw)
        col == ColumnMatch(LStrip(raw))
    IN  IF tbl # None
        THEN <<DictSet(sch, Lower(tbl), <<>>), Lower(tbl)>>
        ELSE IF cur # None /\ col # None
             THEN <<DictAppend(sch, sch[Len(sch)].name, Lower(col)), cur>>
             ELSE <<sch, cur>>

\* one iteration of the for loop: the new <<schema, current_table>>
ParseStep(sch, cur, raw) ==
    LET tbl == HeadingMatch(raw)
        col == ColumnMatch(LStrip(raw))
    IN  IF tbl # None
        THEN <<DictSet(sch, Lower(tbl), <<>>), Lower(tbl)>>
        ELSE IF cur # None /\ col # None
             THEN <<DictAppend(sch, cur, Lower(col)), cur>>
             ELSE <<sch, cur>>

\* f"{tbl}.{col}"
ColumnRef(tbl, col) == tbl \o <<".">> \o col

\* [f"{tbl}.{col}" for col in cols]
TableRefs(entry) == [j \in 1..Len(entry.cols) |-> ColumnRef(entry.name, entry.cols[j])]

\* [f"{tbl}.{col}" for tbl, cols in _SCHEMA.items() for col in cols]
RECURSIVE FlatColumns(_)
FlatColumns(sch) ==
    IF sch = <<>> THEN <<>>
    ELSE TableRefs(Head(sch)) \o FlatColumns(Tail(sch))

----------------------------------------------------------------------------
(* 2. _fuzzy_suggest                                                       *)

\* re.findall(r"[A-Za-z0-9_]{3,}", s) scanning from s[from]
RECURSIVE FindTokens(_, _)
FindTokens(s, from) ==
    IF from > Len(s) THEN <<>>
    ELSE LET n == RunLen(s, from, WordChars)
         IN  IF n >= MinTokenLen
             THEN <<SubSeq(s, from, from + n - 1)>> \o FindTokens(s, from + n)
             ELSE FindTokens(s, from + (IF n = 0 THEN 1 ELSE n))

\* re.findall(r"[A-Za-z0-9_]{3,}", text.lower())
Tokens(text) == FindTokens(Lower(text), 1)

\* fuzz.partial_ratio(tok, cand), read from the table of the third-party scorer
Score(tok, cand) == ratio[tok][cand]

\* the indices of choices by descending score, equal scores by ascending index
RECURSIVE RankIndices(_, _, _)
RankIndices(S, tok, choices) ==
    IF S = {} THEN <<>>
    ELSE LET i == CHOOSE i \in S : \A j \in S :
                      \/ Score(tok, choices[i]) > Score(tok, choices[j])
                      \/ Score(tok, choices[i]) = Score(tok, choices[j]) /\ i <= j
         IN  <<i>> \o RankIndices(S \ {i}, tok, choices)

\* seq[:n] of Python
Slice(seq, n) ==
    IF n >= 0 THEN SubSeq(seq, 1, IF n < Len(seq) THEN n ELSE Len(seq))
    ELSE SubSeq(seq, 1, IF Len(seq) + n > 0 THEN Len(seq) + n ELSE 0)

\* variant: extract without a limit
ExtractUnlimited(tok, choices, limit) ==
    LET order == RankIndices(1..Len(choices), tok, choices)
    IN  [r \in 1..Len(order) |->
            [cand |-> choices[order[r]], score |-> Score(tok, choices[order[r]]),
             index |-> order[r]]]

\* process.extract(tok, choices, scorer=fuzz.partial_ratio, limit=limit):
\* the (cand, score, index) triples of the `limit` best choices
Extract(tok, choices, limit) ==
    LET order == Slice(RankIndices(1..Len(choices), tok, choices), limit)
    IN  [r \in 1..Len(order) |->
            [cand |-> choices[order[r]], score |-> Score(tok, choices[order[r]]),
             index |-> order[r]]]

\* position of cand among the keys of best, 0 when absent
BestIndex(best, cand) ==
    IF \E i \in 1..Len(best) : best[i].cand = cand
    THEN CHOOSE i \in 1..Len(best) : best[i].cand = cand
    ELSE 0

\* best.get(cand, 0)
BestGet(best, cand) ==
    IF BestIndex(best, cand) = 0 THEN 0 ELSE best[BestIndex(best, cand)].score

Max(a, b) == IF a >= b THEN a ELSE b

\* if score >= 65: best[cand] = max(best.get(cand, 0), score)
BestPut(best, hit) ==
    IF hit.score >= Threshold
    THEN IF BestIndex(best, hit.cand) = 0
         THEN Append(best, [cand |-> hit.cand, score |-> Max(0, hit.score)])
         ELSE [best EXCEPT ![BestIndex(best, hit.cand)].score = Max(@, hit.score)]
    ELSE best

\* the inner for loop over the triples of one extract call (Len(best) < 0
\* never holds: it makes TLC evaluate best at every step of the loop)
RECURSIVE BestAfterHits(_, _)
BestAfterHits(best, hits) ==
    IF hits = <<>> \/ Len(best) < 0 THEN best
    ELSE BestAfterHits(BestPut(best, Head(hits)), Tail(hits))

\* the outer for loop over the tokens
RECURSIVE BestAfterTokens(_, _, _)
BestAfterTokens(best, toks, choices) ==
    IF toks = <<>> THEN best
    ELSE BestAfterTokens(
             BestAfterHits(best, Extract(Head(toks), choices, ExtractLimit)),
             Tail(toks), choices)

\* variant: a sort that puts the later of two keys of equal score first
RECURSIVE SortedKeysLastFirst(_)
SortedKeysLastFirst(best) ==
    IF best = <<>> THEN <<>>
    ELSE LET i == CHOOSE i \in 1..Len(best) :
                      /\ \A j \in 1..Len(best) : best[i].score >= best[j].score
                      /\ \A j \in (i + 1)..Len(best) : best[j].score < best[i].score
         IN  <<best[i].cand>> \o
             SortedKeysLastFirst(SubSeq(best, 1, i - 1) \o SubSeq(best, i + 1, Len(best)))

\* sorted(best, key=best.get, reverse=True): a stable sort, so keys of equal
\* score stay in the order the dict holds them
RECURSIVE SortedKeys(_)
SortedKeys(best) ==
    IF best = <<>> THEN <<>>
    ELSE LET i == CHOOSE i \in 1..Len(best) :
                      /\ \A j \in 1..Len(best) : best[i].score >= best[j].score
                      /\ \A j \in 1..(i - 1) : best[j].score < best[i].score
         IN  <<best[i].cand>> \o
             SortedKeys(SubSeq(best, 1, i - 1) \o SubSeq(best, i + 1, Len(best)))

\* the dict `best` when the loops of _fuzzy_suggest are done
BestOf(text, choices) == BestAfterTokens(<<>>, Tokens(text), choices)

\* variant: the sorted keys are returned without the [:k]
FuzzySuggestUncapped(text, k) == SortedKeys(BestOf(text, FLAT_COLUMNS))

\* _fuzzy_suggest(text, k)
FuzzySuggest(text, k) == Slice(SortedKeys(BestOf(text, FLAT_COLUMNS)), k)

----------------------------------------------------------------------------
(* 3. decide_route                                                         *)

\* x in seq
InSeq(x, seq) == \E i \in 1..Len(seq) : seq[i] = x

\* [s for s in seq if s in allow and s not in deny]
RECURSIVE Keep(_, _, _)
Keep(seq, allow, deny) ==
    IF seq = <<>> THEN <<>>
    ELSE (IF InSeq(Head(seq), allow) /\ ~InSeq(Head(seq), deny)
          THEN <<Head(seq)>> ELSE <<>>) \o Keep(Tail(seq), allow, deny)

\* response.get("suggestions", [])
OriginalSuggestions(response) ==
    IF "suggestions" \in DOMAIN response THEN response.suggestions ELSE <<>>

\* variant: the oracle's suggestions are taken over unfiltered
ValidSuggestionsUnfiltered(response, flat) == OriginalSuggestions(response)

\* valid_suggestions = [s for s in original_suggestions if s in _FLAT_COLUMNS]
ValidSuggestions(response, flat) == Keep(OriginalSuggestions(response), flat, <<>>)

\* variant: hints already among the valid suggestions are not skipped
AdditionalWithRepeats(valid, hnts, flat) == Keep(hnts, flat, <<>>)

\* additional = [s for s in hints if s in _FLAT_COLUMNS and s not in valid_suggestions]
Additional(valid, hnts, flat) == Keep(hnts, flat, valid)

\* variant: no backfill from the hints
BackfilledNever(valid, hnts, flat) == valid

\* if len(valid_suggestions) < 3: valid_suggestions += additional[: 3 - len(...)]
Backfilled(valid, hnts, flat) ==
    IF Len(valid) < SuggestionCap
    THEN valid \o Slice(Additional(valid, hnts, flat), SuggestionCap - Len(valid))
    ELSE valid

\* response.get("route") == "clarify"
IsClarify(response) == "route" \in DOMAIN response /\ response.route = "clarify"

\* variant: the clarify rule runs before the backfill instead of after it
FinalSuggestionsClarifyFirst(response, hnts, flat) ==
    Backfilled(IF IsClarify(response) THEN <<>> ELSE ValidSuggestions(response, flat),
               hnts, flat)

\* valid_suggestions when it is stored into response["suggestions"]
FinalSuggestions(response, hnts, flat) ==
    IF IsClarify(response) THEN <<>>
    ELSE Backfilled(ValidSuggestions(response, flat), hnts, flat)

\* variant: "suggestions" is only overwritten, never added
RepairedInPlace(response, hnts, flat, lang) ==
    [key \in DOMAIN response \cup {"language"} |->
        CASE key = "suggestions" -> FinalSuggestions(response, hnts, flat)
          [] key = "language" -> lang
          [] OTHER -> response[key]]

\* response after response["suggestions"] = ... and response["language"] = ...
Repaired(response, hnts, flat, lang) ==
    [key \in DOMAIN response \cup {"suggestions", "language"} |->
        CASE key = "suggestions" -> FinalSuggestions(response, hnts, flat)
          [] key = "language" -> lang
          [] OTHER -> response[key]]

\* response when decide_route returns it, from the backfilled valid_suggestions
Stored(response, valid, lang) ==
    [key \in DOMAIN response \cup {"suggestions", "language"} |->
        CASE key = "suggestions" -> IF IsClarify(response) THEN <<>> ELSE valid
          [] key = "language" -> lang
          [] OTHER -> response[key]]

\* return {"error": "Model did not produce a function call"}
NoFunctionCall == [error |-> "Model did not produce a function call"]

\* the value decide_route returns for the message `msg` of the completion
Returned(msg, hnts, flat, lang) ==
    IF msg.tool_call THEN Repaired(msg.arguments, hnts, flat, lang)
    ELSE NoFunctionCall

----------------------------------------------------------------------------
(* Inputs                                                                  *)

MaxLines == 5
MaxSuggestions == 4
MaxK == 4

LineT == <<"#", "#", "#", " ", "T">>
LineU == <<"#", "#", "#", " ", "\t", "u", " ", "x">>
LineA == <<"-", " ", "a", ":", " ", "x">>
LineB == <<" ", "B", ":">>
LineOther == <<"#", "#", "#", "a", ":">>
SampleLines == {LineT, LineU, LineA, LineB, LineOther}

\* all sequences over S of length at most n
SeqsUpTo(S, n) == UNION {[1..m -> S] : m \in 0..n}

\* t.a, t.b, u.a, with a column line before the first heading
TextTwoTables == <<LineA, LineT, LineA, LineB, LineOther, LineU, LineA>>
\* t.a twice
TextDuplicate == <<LineT, LineA, LineA>>
\* no table at all
TextEmpty == <<LineOther, LineA>>
SchemaTexts == {TextTwoTables, TextDuplicate, TextEmpty}

\* one table with more columns than extract returns: a, a1, a11, ...
WideColumns == ExtractLimit + 1
WideName(n) == <<"a">> \o [i \in 1..(n - 1) |-> "1"]
WideLine(n) == <<"-", " ">> \o WideName(n) \o <<":">>
TextWide == <<LineT>> \o [n \in 1..WideColumns |-> WideLine(n)]

\* the k of the direct calls: small ones, and those around the extract limit
KValues == 0..MaxK \cup {ExtractLimit, ExtractLimit + 1}

SampleQuestions ==
    { <<"A", "b", "c", " ", "t", "a", "b">>,
      <<"t", "a", "b", "-", "a", "b", "c">>,
      <<"a", "b", "C">>,
      <<"t", "a", "b", " ", "a", "b">>,
      <<"a", "b", " ", "c">>,
      <<"1", "-", "1">>,
      <<>> }

TokAbc == <<"a", "b", "c">>
TokTab == <<"t", "a", "b">>
TokenUniverse == {TokAbc, TokTab}

\* scores below, at and above the threshold
ScoreValues == {Threshold - 15, Threshold, Threshold + 25}

\* the whole loop of _parse_db_description, to size the score table
RECURSIVE ParseAll(_, _, _)
ParseAll(sch, cur, text) ==
    IF text = <<>> THEN sch
    ELSE LET st == ParseStep(sch, cur, Head(text))
         IN  ParseAll(st[1], st[2], Tail(text))

Range(seq) == {seq[i] : i \in 1..Len(seq)}

ColumnsOf(text) == Range(FlatColumns(ParseAll(<<>>, None, text)))

Langs == {"en", "uk"}
Routes == {"sql_query", "clarify", "drop_table"}

\* a column reference no sample schema declares
FakeColumn == <<"t", ".", "x">>

\* what the model may put into "suggestions"
OracleStrings ==
    {FakeColumn} \cup
    (IF FLAT_COLUMNS = <<>> THEN {}
     ELSE {FLAT_COLUMNS[1], FLAT_COLUMNS[Len(FLAT_COLUMNS)]})

\* json.loads(arguments): "route" and "suggestions" may each be missing
Responses ==
    LET Sugg == SeqsUpTo(OracleStrings, MaxSuggestions)
    IN  {[reason |-> "r", route |-> r, suggestions |-> s] : r \in Routes, s \in Sugg}
        \cup {[reason |-> "r", suggestions |-> s] : s \in Sugg}
        \cup {[reason |-> "r", route |-> r] : r \in Routes}
        \cup {[reason |-> "r"]}

\* choice: with a function call and its arguments, or without
Messages ==
    {[tool_call |-> FALSE]} \cup {[tool_call |-> TRUE, arguments |-> r] : r \in Responses}

\* langdetect.detect raises on a text without letters
HasLetter(text) == \E i \in 1..Len(text) : text[i] \in UpperChars \cup LowerChars

----------------------------------------------------------------------------
(* Actions                                                                 *)

NotCalled == [made |-> FALSE]
NotReturned == [pending |-> TRUE]

\* the concurrent workers that call decide_route, and the locals of a worker
\* that is in no call
Workers == {"w1", "w2"}
Idle == [at |-> "idle", question |-> <<>>, best |-> <<>>, hints |-> <<>>,
         detected_lang |-> "None", choice |-> [tool_call |-> FALSE],
         valid_suggestions |-> <<>>, result |-> NotReturned]

InitWith(texts) ==
    /\ lines \in texts
    /\ lineNo = 1
    /\ schema = <<>>
    /\ current_table = None
    /\ FLAT_COLUMNS = <<>>
    /\ pc = "parsing"
    /\ question = <<>>
    /\ hints = <<>>
    /\ detected_lang = "None"
    /\ choice = [tool_call |-> FALSE]
    /\ result = NotReturned
    /\ suggestCall = NotCalled
    /\ workers = [w \in Workers |-> Idle]

\* every score table over the columns the text declares
AllTables(text) == [TokenUniverse -> [ColumnsOf(text) -> ScoreValues]]

\* the tables in which only the token "abc" reaches the threshold
OneTokenTables(text) ==
    {t \in AllTables(text) : \A c \in ColumnsOf(text) : t[TokTab][c] = Threshold - 15}

\* one score table: nothing matches
NoMatchTables(text) ==
    {[tok \in TokenUniverse |-> [c \in ColumnsOf(text) |-> Threshold - 15]]}

\* score tables for a text: "abc" gives the first n columns the score
\* v, "tab" gives the last m columns the threshold score
PrefixTables(text) ==
    LET flat == FlatColumns(ParseAll(<<>>, None, text))
        Place(c) == CHOOSE p \in 1..Len(flat) : flat[p] = c
    IN  {[tok \in TokenUniverse |-> [c \in Range(flat) |->
             IF tok = TokAbc
             THEN (IF Place(c) <= n THEN v ELSE Threshold - 15)
             ELSE (IF Place(c) > Len(flat) - m THEN Threshold ELSE Threshold - 15)]] :
          n \in {0, ExtractLimit, Len(flat)}, v \in {Threshold, Threshold + 25},
          m \in {0, 1, Len(flat)}}

\* for raw in path.read_text(encoding="utf-8").splitlines(): one iteration
ParseLine ==
    /\ pc = "parsing"
    /\ lineNo <= Len(lines)
    /\ LET st == ParseStep(schema, current_table, lines[lineNo])
       IN  /\ schema' = st[1]
           /\ current_table' = st[2]
    /\ lineNo' = lineNo + 1
    /\ UNCHANGED <<workers, lines, FLAT_COLUMNS, ratio, pc, question, hints, detected_lang,
                   choice, result, suggestCall>>

\* return schema; _SCHEMA = ...; _FLAT_COLUMNS = [...]
BuildIndex ==
    /\ pc = "parsing"
    /\ lineNo > Len(lines)
    /\ FLAT_COLUMNS' = FlatColumns(schema)
    /\ pc' = "ready"
    /\ UNCHANGED <<workers, lines, lineNo, schema, current_table, ratio, question, hints,
                   detected_lang, choice, result, suggestCall>>

\* a call _fuzzy_suggest(text, k)
FuzzySuggestCall ==
    /\ pc \in {"ready", "returned", "raised"}
    /\ \E text \in SampleQuestions, k \in KValues :
          suggestCall' = [made |-> TRUE, text |-> text, k |-> k,
                          out |-> FuzzySuggest(text, k)]
    /\ UNCHANGED <<workers, lines, lineNo, schema, current_table, FLAT_COLUMNS, ratio, pc,
                   question, hints, detected_lang, choice, result>>

\* decide_route(question) up to client.chat.completions.create
DecideRouteCall ==
    /\ pc \in {"ready", "returned", "raised"}
    /\ \E q \in SampleQuestions :
          /\ question' = q
          /\ hints' = FuzzySuggest(q, DefaultK)
          /\ IF HasLetter(q)
             THEN /\ \E lang \in Langs : detected_lang' = lang
                  /\ pc' = "asked"
                  /\ result' = NotReturned
             ELSE /\ detected_lang' = "None"
                  /\ pc' = "raised"
                  /\ result' = [raised |-> "LangDetectException"]
    /\ choice' = [tool_call |-> FALSE]
    /\ UNCHANGED <<workers, lines, lineNo, schema, current_table, FLAT_COLUMNS, ratio,
                   suggestCall>>

\* decide_route from the completion to its return
DecideRouteReturn ==
    /\ pc = "asked"
    /\ \E msg \in Messages :
          /\ choice' = msg
          /\ result' = Returned(msg, hints, FLAT_COLUMNS, detected_lang)
    /\ pc' = "returned"
    /\ UNCHANGED <<workers, lines, lineNo, schema, current_table, FLAT_COLUMNS, ratio,
                   question, hints, detected_lang, suggestCall>>

\* what the concurrent workers ask, and what the model answers them
ConcurrentQuestions ==
    {<<"a", "b", "C">>, <<"t", "a", "b", "-", "a", "b", "c">>, <<"1", "-", "1">>}
ConcurrentMessages ==
    {[tool_call |-> FALSE]} \cup
    {[tool_call |-> TRUE, arguments |-> r] : r \in
        {[reason |-> "r", route |-> "sql_query",
          suggestions |-> <<FakeColumn, FLAT_COLUMNS[Len(FLAT_COLUMNS)]>>],
         [reason |-> "r", route |-> "clarify", suggestions |-> <<FLAT_COLUMNS[1]>>],
         [reason |-> "r"]}}

\* what a worker's step leaves alone: the code assigns to locals only
GlobalsUnchanged ==
    UNCHANGED <<lines, lineNo, schema, current_table, FLAT_COLUMNS, ratio, pc,
                question, hints, detected_lang, choice, result, suggestCall>>

\* worker w enters decide_route(question); the loops of _fuzzy_suggest fill
\* its own dict `best`
WorkerExtract(w) ==
    /\ pc = "ready"
    /\ workers[w].at \in {"idle", "returned", "raised"}
    /\ \E q \in ConcurrentQuestions :
          workers' = [workers EXCEPT ![w] =
              [Idle EXCEPT !.at = "scored", !.question = q,
                           !.best = BestOf(q, FLAT_COLUMNS)]]
    /\ GlobalsUnchanged

\* _fuzzy_suggest returns into hints; detected_lang = langdetect.detect(question)
WorkerSuggest(w) ==
    /\ workers[w].at = "scored"
    /\ LET out == Slice(SortedKeys(workers[w].best), DefaultK)
       IN  IF HasLetter(workers[w].question)
           THEN \E lang \in Langs :
                  workers' = [workers EXCEPT ![w].at = "asked", ![w].hints = out,
                                             ![w].detected_lang = lang]
           ELSE workers' = [workers EXCEPT ![w].at = "raised", ![w].hints = out,
                               ![w].result = [raised |-> "LangDetectException"]]
    /\ GlobalsUnchanged

\* the completion arrives; valid_suggestions = [s for s in ... if s in _FLAT_COLUMNS]
WorkerFilter(w) ==
    /\ workers[w].at = "asked"
    /\ \E msg \in ConcurrentMessages :
          IF msg.tool_call
          THEN workers' = [workers EXCEPT ![w].at = "filtered", ![w].choice = msg,
                              ![w].valid_suggestions =
                                  ValidSuggestions(msg.arguments, FLAT_COLUMNS)]
          ELSE workers' = [workers EXCEPT ![w].at = "returned", ![w].choice = msg,
                              ![w].result = NoFunctionCall]
    /\ GlobalsUnchanged

\* variant: valid_suggestions and hints are one list, so the backfill extends both
WorkerBackfillAliased(w) ==
    /\ workers[w].at = "filtered"
    /\ LET filled == Backfilled(workers[w].valid_suggestions, workers[w].hints,
                                FLAT_COLUMNS)
       IN  workers' = [workers EXCEPT ![w].at = "backfilled",
                                      ![w].valid_suggestions = filled,
                                      ![w].hints = filled]
    /\ GlobalsUnchanged

\* if len(valid_suggestions) < 3: valid_suggestions += additional[: 3 - len(...)]
WorkerBackfill(w) ==
    /\ workers[w].at = "filtered"
    /\ workers' = [workers EXCEPT ![w].at = "backfilled",
                      ![w].valid_suggestions =
                          Backfilled(workers[w].valid_suggestions, workers[w].hints,
                                     FLAT_COLUMNS)]
    /\ GlobalsUnchanged

\* the clarify rule, the two stores into response, and the return
WorkerStore(w) ==
    /\ workers[w].at = "backfilled"
    /\ workers' = [workers EXCEPT ![w].at = "returned",
                      ![w].result = Stored(workers[w].choice.arguments,
                                           workers[w].valid_suggestions,
                                           workers[w].detected_lang)]
    /\ GlobalsUnchanged

\* the router: the schema is parsed at import, then questions are routed
Init == InitWith(SchemaTexts) /\ ratio \in OneTokenTables(lines)
Next == ParseLine \/ BuildIndex \/ DecideRouteCall \/ DecideRouteReturn
Spec == Init /\ [][Next]_vars

\* the hint engine alone, over every score table
InitSuggest == InitWith(SchemaTexts) /\ ratio \in AllTables(lines)
NextSuggest == ParseLine \/ BuildIndex \/ FuzzySuggestCall
SpecSuggest == InitSuggest /\ [][NextSuggest]_vars

\* the hint engine over a schema wider than the extract limit
InitWide == InitWith({TextWide}) /\ ratio \in PrefixTables(lines)
SpecWide == InitWide /\ [][NextSuggest]_vars

\* two workers route questions concurrently over one schema index
InitConcurrent == InitWith({TextTwoTables}) /\ ratio \in PrefixTables(lines)
NextConcurrent ==
    \/ ParseLine
    \/ BuildIndex
    \/ \E w \in Workers : WorkerExtract(w)
    \/ \E w \in Workers : WorkerSuggest(w)
    \/ \E w \in Workers : WorkerFilter(w)
    \/ \E w \in Workers : WorkerBackfill(w)
    \/ \E w \in Workers : WorkerStore(w)
SpecConcurrent == InitConcurrent /\ [][NextConcurrent]_vars

\* the parser alone, over every text of at most MaxLines sample lines
InitParse ==
    InitWith(SeqsUpTo(SampleLines, MaxLines)) /\ ratio \in NoMatchTables(lines)
NextParse == ParseLine \/ BuildIndex
SpecParse == InitParse /\ [][NextParse]_vars

----------------------------------------------------------------------------
(* Properties of decide_route, under Spec                                  *)

\* decide_route has returned the repaired arguments of a function call
Decided == pc = "returned" /\ choice.tool_call

\* the raw decision and the final decision of the call that has returned
Raw == choice.arguments
FinalList == result.suggestions

RawRouteIs(r) == "route" \in DOMAIN Raw /\ Raw.route = r
RawList == IF "suggestions" \in DOMAIN Raw THEN Raw.suggestions ELSE <<>>

IsColumn(s) == s \in Range(FLAT_COLUMNS)

\* V: the oracle's suggestions that are columns of the schema, in their order
Surviving == SelectSeq(RawList, IsColumn)

\* C1 (schema-safety): every string in the final decision's suggestions is a
\* member of flatColumns, so no string the oracle supplied that is absent
\* from flatColumns appears in the output, whatever the route and the hints.
C1_SchemaSafety ==
    Decided =>
        /\ \A i \in 1..Len(FinalList) : IsColumn(FinalList[i])
        /\ \A i \in 1..Len(RawList) :
              ~IsColumn(RawList[i]) => ~InSeq(RawList[i], FinalList)

\* the oracle named a column that does not exist, beside a real one, and the
\* final list is not empty
C1_Witness ==
    /\ Decided
    /\ InSeq(FakeColumn, RawList)
    /\ \E i \in 1..Len(RawList) : IsColumn(RawList[i])
    /\ hints # <<>>
    /\ FinalList # <<>>

\* C2 (clarify-empties): when the raw route is clarify the final suggestions
\* are the empty list, whatever the oracle supplied and whatever hints exist.
C2_ClarifyEmpties == Decided /\ RawRouteIs("clarify") => FinalList = <<>>

\* a clarify decision came with a real column and there were hints
C2_Witness ==
    /\ Decided
    /\ RawRouteIs("clarify")
    /\ Surviving # <<>>
    /\ hints # <<>>
    /\ FinalList = <<>>

\* C3 (closed route enum): every final decision carries a route, and it is
\* sql_query or clarify, for every raw decision the oracle can return.
C3_ClosedRoute ==
    Decided => "route" \in DOMAIN result /\ result.route \in {"sql_query", "clarify"}

FreshHintAt(n) ==
    CHOOSE i \in 1..Len(hints) :
        /\ ~InSeq(hints[i], Surviving)
        /\ Cardinality({j \in 1..i : ~InSeq(hints[j], Surviving)}) = n
FreshHintCount == Cardinality({j \in 1..Len(hints) : ~InSeq(hints[j], Surviving)})

Min(a, b) == IF a <= b THEN a ELSE b

\* C5 (backfill result): with route sql_query and fewer than 3 survivors V,
\* the final suggestions are V, in its order, followed by the hints not in V,
\* in hint order, until the total is 3 or the hints run out; no backfilled
\* entry equals an entry before it.
C5_BackfillResult ==
    Decided /\ RawRouteIs("sql_query") /\ Len(Surviving) < SuggestionCap =>
        LET n == Len(Surviving)
            m == Min(SuggestionCap - n, FreshHintCount)
        IN  /\ Len(FinalList) = n + m
            /\ SubSeq(FinalList, 1, n) = Surviving
            /\ \A i \in 1..m : FinalList[n + i] = hints[FreshHintAt(i)]
            /\ \A i \in (n + 1)..(n + m) : \A j \in 1..(i - 1) :
                  FinalList[j] # FinalList[i]

\* one survivor, a hint equal to it and two other hints: the backfill skips
\* the one and stops at the cap
C5_Witness ==
    /\ Decided
    /\ RawRouteIs("sql_query")
    /\ Len(Surviving) = 1
    /\ InSeq(Surviving[1], hints)
    /\ Len(hints) = 3
    /\ Len(FinalList) = SuggestionCap

\* C6 (no starvation): with route sql_query and a non-empty hint list the
\* final suggestions are not empty, also when the oracle supplied none or
\* only invalid ones.
C6_NoStarvation ==
    Decided /\ RawRouteIs("sql_query") /\ hints # <<>> => FinalList # <<>>

\* the oracle supplied only a column that does not exist
C6_Witness ==
    /\ Decided
    /\ RawRouteIs("sql_query")
    /\ RawList = <<FakeColumn>>
    /\ hints # <<>>
    /\ FinalList = hints

\* C7 (suggestion-count cap): the final suggestions have at most 3 entries,
\* whatever number of valid column references the oracle returned.
C7_AtMostThree == Decided => Len(FinalList) <= SuggestionCap

----------------------------------------------------------------------------
(* Properties of _fuzzy_suggest, under SpecSuggest                         *)

SText == Lower(suggestCall.text)
Out == suggestCall.out

\* the places of the text where a token starts: a run of word characters of
\* length 3 or more that is not part of a longer run
TokenStarts ==
    {i \in 1..Len(SText) :
        /\ SText[i] \in WordChars
        /\ (i = 1 \/ SText[i - 1] \notin WordChars)
        /\ \E n \in MinTokenLen..(Len(SText) - i + 1) :
              \A j \in i..(i + n - 1) : SText[j] \in WordChars}

TokenAt(i) ==
    LET last == CHOOSE e \in i..Len(SText) :
                    /\ \A j \in i..e : SText[j] \in WordChars
                    /\ (e = Len(SText) \/ SText[e + 1] \notin WordChars)
    IN  SubSeq(SText, i, last)

\* the first place of c in flatColumns
FlatPos(c) == CHOOSE p \in 1..Len(FLAT_COLUMNS) :
                  FLAT_COLUMNS[p] = c /\ \A q \in 1..(p - 1) : FLAT_COLUMNS[q] # c

\* the maximum over all tokens of the score of c, scores below 65 not counting
MaxScore(c) ==
    LET scores == {Score(TokenAt(i), c) : i \in TokenStarts} \cap Threshold..100
    IN  IF scores = {} THEN 0 ELSE CHOOSE x \in scores : \A y \in scores : y <= x

\* the place of flatColumns[p] in the answer of extract for tok
RankIn(tok, p) ==
    1 + Cardinality({q \in 1..Len(FLAT_COLUMNS) :
           \/ Score(tok, FLAT_COLUMNS[q]) > Score(tok, FLAT_COLUMNS[p])
           \/ Score(tok, FLAT_COLUMNS[q]) = Score(tok, FLAT_COLUMNS[p]) /\ q < p})

\* extract returned c for the token at i with a score of 65 or more
Recorded(i, c) ==
    /\ Score(TokenAt(i), c) >= Threshold
    /\ RankIn(TokenAt(i), FlatPos(c)) <= ExtractLimit

IsCandidate(c) == \E i \in TokenStarts : Recorded(i, c)
Candidates == {c \in Range(FLAT_COLUMNS) : IsCandidate(c)}

\* the best recorded score of a candidate
BestScore(c) ==
    LET scores == {Score(TokenAt(i), c) : i \in {j \in TokenStarts : Recorded(j, c)}}
    IN  CHOOSE x \in scores : \A y \in scores : y <= x

\* the first token for which a candidate was recorded
FirstToken(c) ==
    CHOOSE i \in TokenStarts : Recorded(i, c) /\ \A j \in TokenStarts :
        Recorded(j, c) => i <= j

\* c was recorded before d
RecordedBefore(c, d) ==
    \/ FirstToken(c) < FirstToken(d)
    \/ /\ FirstToken(c) = FirstToken(d)
       /\ RankIn(TokenAt(FirstToken(c)), FlatPos(c)) <
              RankIn(TokenAt(FirstToken(d)), FlatPos(d))

\* C8 (hint ranking and tie-break), as claimed: the candidates come by
\* descending maximum score, and of two candidates with the same maximum
\* score the one earlier in flatColumns comes first, whatever the order of
\* the tokens in the text.
C8_TieByFlatPosition ==
    suggestCall.made =>
        \A i, j \in 1..Len(Out) : i < j =>
            \/ MaxScore(Out[i]) > MaxScore(Out[j])
            \/ MaxScore(Out[i]) = MaxScore(Out[j]) /\ FlatPos(Out[i]) < FlatPos(Out[j])

\* C8, amended: the answer holds min(k, number of candidates) distinct
\* candidates by descending best score (the maximum over the tokens of the
\* scores of 65 or more that extract returned for the candidate); of two
\* candidates with the same best score the one recorded first comes first:
\* the one first returned for an earlier token of the text, and for the same
\* token the one extract returned earlier (higher score against that token,
\* then earlier in flatColumns). Candidates left out rank after those kept.
C8_TieByFirstRecorded ==
    suggestCall.made =>
        /\ Len(Out) = Min(suggestCall.k, Cardinality(Candidates))
        /\ \A i \in 1..Len(Out) : Out[i] \in Candidates
        /\ \A i, j \in 1..Len(Out) : i < j =>
              \/ BestScore(Out[i]) > BestScore(Out[j])
              \/ BestScore(Out[i]) = BestScore(Out[j]) /\ RecordedBefore(Out[i], Out[j])
        /\ \A c \in Candidates \ Range(Out) : \A i \in 1..Len(Out) :
              \/ BestScore(Out[i]) > BestScore(c)
              \/ BestScore(Out[i]) = BestScore(c) /\ RecordedBefore(Out[i], c)

\* two candidates of equal best score come out against their order in
\* flatColumns
C8_Witness ==
    /\ suggestCall.made
    /\ \E i, j \in 1..Len(Out) :
          /\ i < j
          /\ BestScore(Out[i]) = BestScore(Out[j])
          /\ FlatPos(Out[i]) > FlatPos(Out[j])

\* C9 (fuzzy hint cap): the answer of suggest has at most k entries, and it
\* is empty when no token of the text scores 65 or more against a
\* flatColumns entry (so also without a token of length 3 or without columns).
C9_HintCap ==
    suggestCall.made =>
        /\ Len(Out) <= suggestCall.k
        /\ (\A i \in TokenStarts : \A c \in Range(FLAT_COLUMNS) :
                Score(TokenAt(i), c) < Threshold) => Out = <<>>

\* more candidates than k: the cap cuts the answer
C9_Witness ==
    /\ suggestCall.made
    /\ suggestCall.k >= 1
    /\ Cardinality(Candidates) > suggestCall.k
    /\ Len(Out) = suggestCall.k

----------------------------------------------------------------------------
(* Properties of _parse_db_description, under SpecParse                    *)

\* what the sample lines declare
IsHeadingLine(l) == l \in {LineT, LineU}
IsColumnLine(l) == l \in {LineA, LineB}
TableNamed(l) == IF l = LineT THEN <<"t">> ELSE <<"u">>
ColumnNamed(l) == IF l = LineA THEN <<"a">> ELSE <<"b">>

HeadingPlaces == {i \in 1..Len(lines) : IsHeadingLine(lines[i])}
ColumnPlaces == {i \in 1..Len(lines) : IsColumnLine(lines[i])}

\* the text declares tables T1..Tn, each followed by its column lines
DeclaresTablesInOrder ==
    /\ \A i \in 1..Len(lines) : IsHeadingLine(lines[i]) \/ IsColumnLine(lines[i])
    /\ lines # <<>> => IsHeadingLine(lines[1])
    /\ \A i, j \in HeadingPlaces : i # j => TableNamed(lines[i]) # TableNamed(lines[j])

\* the place of the n-th heading line, of the n-th column line
NthPlace(S, n) == CHOOSE i \in S : Cardinality({j \in S : j <= i}) = n

\* the place of the heading line a column line belongs to
HeadingBefore(p) == CHOOSE h \in HeadingPlaces :
                        h < p /\ \A g \in HeadingPlaces : g < p => g <= h

\* the place after the last column line of the table declared at h
EndOfTable(h) ==
    IF \E g \in HeadingPlaces : g > h
    THEN CHOOSE g \in HeadingPlaces : g > h /\ \A f \in HeadingPlaces : f > h => g <= f
    ELSE Len(lines) + 1

\* C10 (schema round-trip): for a text that declares tables T1..Tn in order,
\* each followed by its column lines, the table map has exactly those tables
\* (names in lower case) with exactly those columns, in order, a column
\* declared twice appearing twice; and flatColumns is Ti.cj for the tables in
\* declaration order and the columns in their order within the table.
C10_RoundTrip ==
    pc = "ready" /\ DeclaresTablesInOrder =>
        /\ Len(schema) = Cardinality(HeadingPlaces)
        /\ \A n \in 1..Len(schema) :
              LET h == NthPlace(HeadingPlaces, n)
              IN  /\ schema[n].name = TableNamed(lines[h])
                  /\ schema[n].cols =
                        [m \in 1..(EndOfTable(h) - h - 1) |-> ColumnNamed(lines[h + m])]
        /\ Len(FLAT_COLUMNS) = Cardinality(ColumnPlaces)
        /\ \A m \in 1..Len(FLAT_COLUMNS) :
              LET p == NthPlace(ColumnPlaces, m)
              IN  FLAT_COLUMNS[m] =
                      TableNamed(lines[HeadingBefore(p)]) \o <<".">> \o ColumnNamed(lines[p])

\* two tables, the first with the same column declared twice
C10_Witness ==
    /\ pc = "ready"
    /\ DeclaresTablesInOrder
    /\ Cardinality(HeadingPlaces) = 2
    /\ \E i \in 1..(Len(lines) - 1) :
          IsColumnLine(lines[i]) /\ lines[i + 1] = lines[i]
    /\ Len(FLAT_COLUMNS) >= 2


----------------------------------------------------------------------------
(* Order of the repair rules, under Spec                                   *)

\* the rules in the specified order: filter, then empty the list when the
\* route is clarify, then backfill only when the route is sql_query
SpecifiedOrderList ==
    LET kept == IF RawRouteIs("clarify") THEN <<>> ELSE Surviving
        n == Len(kept)
        m == IF n < SuggestionCap
             THEN Min(SuggestionCap - n,
                      Cardinality({j \in 1..Len(hints) : ~InSeq(hints[j], kept)}))
             ELSE 0
        FreshAt(i) ==
            CHOOSE p \in 1..Len(hints) :
                /\ ~InSeq(hints[p], kept)
                /\ Cardinality({j \in 1..p : ~InSeq(hints[j], kept)}) = i
    IN  IF RawRouteIs("sql_query")
        THEN [i \in 1..(n + m) |-> IF i <= n THEN kept[i] ELSE hints[FreshAt(i - n)]]
        ELSE kept

\* C11 (rule-order equivalence): for every raw decision, any route value
\* included, the code's sequence (filter, backfill, empty on clarify) yields
\* the same final suggestions as the specified sequence (filter, empty on
\* clarify, backfill only on sql_query).
C11_RuleOrderEquivalent == Decided => FinalList = SpecifiedOrderList


----------------------------------------------------------------------------
(* Which columns become candidates, under SpecWide                         *)

\* the columns that score 65 or more against the token at i
ScoringFor(i) == {c \in Range(FLAT_COLUMNS) : Score(TokenAt(i), c) >= Threshold}

\* the distinct columns that score 65 or more against at least one token
Scoring == UNION {ScoringFor(i) : i \in TokenStarts}

\* C12 (every column is scored), as claimed: every flatColumns entry whose
\* score against a token is 65 or more becomes a candidate, so for every k
\* the answer has exactly min(k, number of distinct scoring entries) entries.
C12_EveryColumnScored ==
    suggestCall.made =>
        /\ Len(Out) = Min(suggestCall.k, Cardinality(Scoring))
        /\ suggestCall.k >= Cardinality(Scoring) => Range(Out) = Scoring

\* C12, amended: for each token only the 20 entries of flatColumns that
\* score best against it (equal scores in flatColumns order) are looked at,
\* and those of them that score 65 or more become candidates; for every k
\* the answer has exactly min(k, number of distinct candidates) entries, all
\* of them candidates. The candidates are all the scoring entries when no
\* token has more than 20 entries that score 65 or more.
C12_TwentyBestPerToken ==
    suggestCall.made =>
        /\ Len(Out) = Min(suggestCall.k, Cardinality(Candidates))
        /\ Range(Out) \subseteq Candidates
        /\ suggestCall.k >= Cardinality(Candidates) => Range(Out) = Candidates
        /\ Candidates \subseteq Scoring
        /\ (\A i \in TokenStarts : Cardinality(ScoringFor(i)) <= ExtractLimit)
              => Candidates = Scoring

\* a k above the limit and a column that scores but is no candidate
C12_Witness ==
    /\ suggestCall.made
    /\ suggestCall.k > ExtractLimit
    /\ Cardinality(Scoring) > Cardinality(Candidates)
    /\ Len(Out) = ExtractLimit


----------------------------------------------------------------------------
(* The active table and repeated headings, under SpecParse                 *)

\* the table names of a table map, in order
NamesOf(sch) == [i \in 1..Len(sch) |-> sch[i].name]

\* the column list a table map holds for table t
ColsIn(sch, t) == sch[CHOOSE i \in 1..Len(sch) : sch[i].name = t].cols

\* C13 (active-table rule): in the scan of the lines, a column line is
\* appended to the column list of the table named by the most recent
\* preceding heading line and to no other table; a column line before any
\* heading line is dropped; a line that is neither a heading nor a column
\* line changes neither the table map nor the active table.
C13_ActiveTableRule ==
    [][pc = "parsing" /\ lineNo' = lineNo + 1 =>
        LET l == lines[lineNo]
            headed == \E h \in HeadingPlaces : h < lineNo
        IN  /\ IsColumnLine(l) /\ headed =>
                  LET t == TableNamed(lines[HeadingBefore(lineNo)])
                  IN  /\ NamesOf(schema') = NamesOf(schema)
                      /\ ColsIn(schema', t) = Append(ColsIn(schema, t), ColumnNamed(l))
                      /\ \A i \in 1..Len(schema) :
                            schema[i].name # t => schema'[i].cols = schema[i].cols
                      /\ current_table' = current_table
            /\ IsColumnLine(l) /\ ~headed =>
                  schema' = schema /\ current_table' = current_table
            /\ ~IsHeadingLine(l) /\ ~IsColumnLine(l) =>
                  schema' = schema /\ current_table' = current_table]_vars

\* a column line has just gone to the first of two tables, whose heading was
\* repeated after the second table's
C13_Witness ==
    /\ pc = "parsing"
    /\ lineNo > 1
    /\ IsColumnLine(lines[lineNo - 1])
    /\ Len(schema) = 2
    /\ TableNamed(lines[HeadingBefore(lineNo - 1)]) = schema[1].name
    /\ schema[1].cols = <<ColumnNamed(lines[lineNo - 1])>>

\* the heading lines that name a table for the first time
FirstHeadings ==
    {h \in HeadingPlaces : \A g \in HeadingPlaces :
        g < h => TableNamed(lines[g]) # TableNamed(lines[h])}

\* the place of the last heading line that names table t
LastHeading(t) ==
    CHOOSE h \in HeadingPlaces :
        /\ TableNamed(lines[h]) = t
        /\ \A g \in HeadingPlaces : TableNamed(lines[g]) = t => g <= h

\* the columns declared between the heading at h and the next heading
ColumnsAfter(h) ==
    LET S == {p \in ColumnPlaces : h < p /\ p < EndOfTable(h)}
    IN  [m \in 1..Cardinality(S) |-> ColumnNamed(lines[NthPlace(S, m)])]

\* the table of rank n in the order of first headings
NthTable(n) == TableNamed(lines[NthPlace(FirstHeadings, n)])

\* t.c for the columns after the last heading of each table, from rank n on
RECURSIVE KeptColumnsFrom(_)
KeptColumnsFrom(n) ==
    IF n > Cardinality(FirstHeadings) THEN <<>>
    ELSE LET t == NthTable(n)
             cols == ColumnsAfter(LastHeading(t))
         IN  [j \in 1..Len(cols) |-> t \o <<".">> \o cols[j]] \o KeptColumnsFrom(n + 1)

\* C15 (repeated table heading): a table whose heading occurs again keeps
\* the position of its first heading in the table order, its column list is
\* reset, and flatColumns holds for it only the columns declared after its
\* last heading.
C15_RepeatedHeading ==
    pc = "ready" =>
        /\ Len(schema) = Cardinality(FirstHeadings)
        /\ \A n \in 1..Len(schema) :
              /\ schema[n].name = NthTable(n)
              /\ schema[n].cols = ColumnsAfter(LastHeading(NthTable(n)))
        /\ FLAT_COLUMNS = KeptColumnsFrom(1)

\* the first of two tables is headed again after the second one, with a
\* column under each of its headings
C15_Witness ==
    /\ pc = "ready"
    /\ Len(schema) = 2
    /\ \E g, h \in HeadingPlaces :
          /\ g < h
          /\ TableNamed(lines[g]) = schema[1].name
          /\ TableNamed(lines[h]) = schema[1].name
          /\ \E f \in HeadingPlaces : g < f /\ f < h /\ TableNamed(lines[f]) = schema[2].name
          /\ ColumnsAfter(g) # <<>>
          /\ h = LastHeading(schema[1].name)
          /\ ColumnsAfter(h) # <<>>
    /\ Len(FLAT_COLUMNS) = 1


----------------------------------------------------------------------------
(* Concurrent calls, under SpecConcurrent                                  *)

\* the table map and flatColumns as construction leaves them
BuiltSchema == ParseAll(<<>>, None, lines)
BuiltFlat == FlatColumns(BuiltSchema)

\* worker w holds the hint list that suggest returned to it
HasHints(w) == workers[w].at \in {"asked", "raised", "filtered", "backfilled", "returned"}

\* worker w has its decision back from reconcile
HasDecision(w) == workers[w].at = "returned"

\* C14 (independence of concurrent calls): once the index is built, in every
\* interleaving of the workers' suggest and reconcile steps the table map
\* and flatColumns keep their values of construction, the hint list a
\* worker passed to reconcile stays what suggest returned, and every worker
\* gets what the call returns when run alone on the same arguments, so equal
\* inputs give equal ordered outputs.
C14_IndependentCalls ==
    pc = "ready" =>
        /\ schema = BuiltSchema
        /\ FLAT_COLUMNS = BuiltFlat
        /\ \A w \in Workers :
              /\ HasHints(w) =>
                    workers[w].hints = FuzzySuggest(workers[w].question, DefaultK)
              /\ HasDecision(w) =>
                    workers[w].result =
                        Returned(workers[w].choice,
                                 FuzzySuggest(workers[w].question, DefaultK),
                                 BuiltFlat, workers[w].detected_lang)
        /\ \A w, v \in Workers :
              /\ HasHints(w) /\ HasHints(v)
                    /\ workers[w].question = workers[v].question
                    => workers[w].hints = workers[v].hints
              /\ HasDecision(w) /\ HasDecision(v)
                    /\ workers[w].question = workers[v].question
                    /\ workers[w].choice = workers[v].choice
                    /\ workers[w].detected_lang = workers[v].detected_lang
                    => workers[w].result = workers[v].result

\* one worker has its backfilled decision while the other, on the same
\* question, is between the filter and the backfill of a different reply
C14_Witness ==
    /\ pc = "ready"
    /\ \E w, v \in Workers :
          /\ w # v
          /\ workers[w].at = "returned"
          /\ workers[w].choice.tool_call
          /\ workers[w].hints # <<>>
          /\ "suggestions" \in DOMAIN workers[w].choice.arguments
          /\ workers[w].result.suggestions # workers[w].choice.arguments.suggestions
          /\ workers[v].at = "filtered"
          /\ workers[v].question = workers[w].question
          /\ workers[v].choice # workers[w].choice

====
